---- MODULE Spec2Model ----
(***************************************************************************)
(* Model of the task-management page of src/src/pages/Index.tsx: the       *)
(* useTimer hook (countdown), the Index component (task list, persistence  *)
(* to the 'tasks' slot of localStorage, search filter) and the TaskForm    *)
(* component (validated create/edit form).                                  *)
(*                                                                          *)
(* One action is one browser event (a click, an input change, a form        *)
(* submit, an interval firing, page load, page teardown) together with the  *)
(* re-render and the effects React runs for it before the next event.       *)
(*                                                                          *)
(* Text is a sequence of one-character strings, so trim, toLowerCase and    *)
(* includes are computed as JavaScript computes them.                       *)
(***************************************************************************)
EXTENDS Integers, Sequences, FiniteSets, TLC

\* ------------------------------------------------------------------ bounds

\* Number of tasks the user creates in one run of the model (ids 1..MaxIds).
MaxIds == 2

\* useTimer(3600): the initial value of the countdown, in seconds.
InitialTime == 3600

\* How many seconds before expiry ExpirySpec takes the countdown up.
LastSeconds == 2

\* ------------------------------------------------------------------ text

Blank == <<>>

\* String.prototype.trim on the model's alphabet: strip leading and trailing spaces.
RECURSIVE TrimLeft(_)
TrimLeft(s) == IF s # <<>> /\ Head(s) = " " THEN TrimLeft(Tail(s)) ELSE s

RECURSIVE TrimRight(_)
TrimRight(s) ==
    IF s # <<>> /\ s[Len(s)] = " " THEN TrimRight(SubSeq(s, 1, Len(s) - 1)) ELSE s

Trim(s) == TrimRight(TrimLeft(s))

LowerChar(c) ==
    CASE c = "A" -> "a"
      [] c = "B" -> "b"
      [] OTHER -> c

\* String.prototype.toLowerCase
ToLowerCase(s) == [k \in DOMAIN s |-> LowerChar(s[k])]

\* String.prototype.includes
Includes(s, q) ==
    \E off \in 0..(Len(s) - Len(q)) : SubSeq(s, off + 1, off + Len(q)) = q

\* A date text is kept as chunks: the first is the ten characters YYYY-MM-DD, the
\* second, if any, the time part.  <<>> is the empty string "".
\* String.prototype.substring(0, 10)
Substring10(d) == IF d = <<>> THEN <<>> ELSE SubSeq(d, 1, 1)

\* The value undefined of an optional text field.
Undefined == <<"undefined">>

\* ------------------------------------------------------------------ input sets

\* What the user types into the title, description and search inputs.
TitleVals == { <<>>, <<" ">>, <<"a">>, <<"A", "B">> }
DescVals == { <<>>, <<"b">> }
QueryVals == { <<>>, <<" ">>, <<"B">> }
\* The radio items the user picks among (the form starts at "medium").
PriorityVals == { "high", "medium" }
\* What the date input yields: "" (no date) or a date-only text.
DueVals == { <<>>, <<"2026-01-01">> }

\* ------------------------------------------------------------------ values

\* A JavaScript value held in the tasks / filteredTasks state: an array of tasks, or
\* some other JSON value (an object) that JSON.parse can return.
Arr(items) == [kind |-> "array", items |-> items]
ObjectValue == [kind |-> "object", items |-> <<>>]

\* JSON.stringify of one task: a key whose value is undefined is left out.
\* In the text the dueDate key is absent (<<>>) or present with its value (<<value>>).
StringifyTask(t) ==
    [id |-> t.id, title |-> t.title, description |-> t.description,
     priority |-> t.priority, completed |-> t.completed, createdAt |-> t.createdAt,
     dueDate |-> IF t.dueDate = Undefined THEN <<>> ELSE <<t.dueDate>>]

\* JSON.parse of one task: reading a key that is absent gives undefined.
ParseTask(j) ==
    [id |-> j.id, title |-> j.title, description |-> j.description,
     priority |-> j.priority, completed |-> j.completed, createdAt |-> j.createdAt,
     dueDate |-> IF j.dueDate = <<>> THEN Undefined ELSE j.dueDate[1]]

\* The content of the 'tasks' slot: absent, text that is not JSON, or JSON text.
AbsentSlot == [kind |-> "absent", val |-> ObjectValue]
GarbageSlot == [kind |-> "text", val |-> ObjectValue]
JsonSlot(v) == [kind |-> "json", val |-> v]

\* JSON.stringify(tasks)
Stringify(v) ==
    JsonSlot([kind |-> v.kind,
              items |-> [k \in DOMAIN v.items |-> StringifyTask(v.items[k])]])

\* JSON.parse(storedTasks), for a slot holding JSON text
Parse(slot) ==
    [kind |-> slot.val.kind,
     items |-> [k \in DOMAIN slot.val.items |-> ParseTask(slot.val.items[k])]]

\* A task left in the slot by an earlier session, created before this run's clock
\* started (createdAt 0).
StoredTask ==
    [id |-> 1, title |-> <<"a">>, description |-> <<"b">>, priority |-> "high",
     completed |-> TRUE, dueDate |-> <<"2026-01-01">>, createdAt |-> 0]

\* What the slot can hold when the page is first loaded.
InitialSlots ==
    { AbsentSlot, GarbageSlot, JsonSlot(ObjectValue), Stringify(Arr(<<StoredTask>>)) }

MaxIdOf(slot) ==
    IF slot.kind = "json" /\ slot.val.items # <<>> THEN slot.val.items[1].id ELSE 0

\* ------------------------------------------------------------------ state

VARIABLES
    storage,        \* localStorage 'tasks' slot
    mounted,        \* the Index component is mounted
    crashed,        \* an error escaped a render of this session
    storageOk,      \* localStorage.setItem succeeds (FALSE: it throws, e.g. quota exceeded)
    tasks, filteredTasks, showForm, editingTask, testStarted, searchQuery,
    form,           \* TaskForm's own state: title, description, priority, dueDate, errors
    timeRemaining, isTimeUp, timerRef,
    intervals,      \* ids of the intervals window.setInterval has running
    ticks,          \* interval firings since the countdown was last started
    restarted,      \* startTimer was called again while this countdown was running
    nextId          \* source of uuidv4() ids and of creation timestamps

vars ==
    << storage, mounted, crashed, storageOk,
       tasks, filteredTasks, showForm, editingTask, testStarted, searchQuery,
       form, timeRemaining, isTimeUp, timerRef, intervals, ticks, restarted, nextId >>

timerVars == << timeRemaining, isTimeUp, timerRef, intervals >>
storeVars == << tasks, filteredTasks, showForm, editingTask, searchQuery, form >>
envVars == << storage, storageOk, nextId >>

\* null for editingTask and for timerRef.current
NoTask == <<>>
NullRef == 0

\* ------------------------------------------------------------------ timer hook

Timer == [timeRemaining |-> timeRemaining, isTimeUp |-> isTimeUp,
          timerRef |-> timerRef, intervals |-> intervals]

\* window.setInterval returns an id no running interval has.
FreshInterval(t) ==
    CHOOSE i \in 1..(Cardinality(t.intervals) + 2) : i \notin t.intervals /\ i # t.timerRef

\* Variant of startTimer without the early return on a running timer.
StartTimerUnguarded(t) ==
    LET id == FreshInterval(t) IN
    [t EXCEPT !.isTimeUp = FALSE, !.timerRef = id, !.intervals = @ \cup {id}]

StartTimer(t) ==
    IF t.timerRef # NullRef
    THEN t
    ELSE LET id == FreshInterval(t) IN
         [t EXCEPT !.isTimeUp = FALSE, !.timerRef = id, !.intervals = @ \cup {id}]

\* Variant of the interval callback that expires one firing late (prevTime < 1).
TickUpdateLate(t) ==
    IF t.timeRemaining < 1
    THEN [t EXCEPT !.intervals = @ \ {t.timerRef}, !.isTimeUp = TRUE, !.timeRemaining = 0]
    ELSE [t EXCEPT !.timeRemaining = @ - 1]

\* The interval callback: setTimeRemaining(prevTime => ...)
TickUpdate(t) ==
    IF t.timeRemaining <= 1
    THEN [t EXCEPT !.intervals = @ \ {t.timerRef}, !.isTimeUp = TRUE, !.timeRemaining = 0]
    ELSE [t EXCEPT !.timeRemaining = @ - 1]

\* Variant of resetTimer that drops the reference without clearInterval.
ResetTimerNoClear(t) ==
    [t EXCEPT !.timerRef = NullRef, !.timeRemaining = InitialTime, !.isTimeUp = FALSE]

ResetTimer(t) ==
    [t EXCEPT !.intervals = IF t.timerRef # NullRef THEN @ \ {t.timerRef} ELSE @,
              !.timerRef = NullRef,
              !.timeRemaining = InitialTime,
              !.isTimeUp = FALSE]

\* The cleanup of useTimer's effect, run when the component unmounts.
CleanupTimer(t) ==
    [t EXCEPT !.intervals = IF t.timerRef # NullRef THEN @ \ {t.timerRef} ELSE @]

SetTimer(t) ==
    /\ timeRemaining' = t.timeRemaining
    /\ isTimeUp' = t.isTimeUp
    /\ timerRef' = t.timerRef
    /\ intervals' = t.intervals

\* ------------------------------------------------------------------ effects

\* Variant of the save effect that never reaches localStorage.setItem.
SaveEffectSkipped(slot, v, ok) == slot

\* localStorage.setItem inside try/catch: a write that throws leaves the slot as it was.
SaveEffect(slot, v, ok) == IF ok THEN Stringify(v) ELSE slot

\* Variant of the filter effect that lower-cases the query but not the task text.
FilterEffectCaseSensitive(v, query) ==
    IF Trim(query) = Blank
    THEN v
    ELSE LET lowerCaseQuery == ToLowerCase(query) IN
         Arr(SelectSeq(v.items, LAMBDA task :
                \/ Includes(task.title, lowerCaseQuery)
                \/ /\ task.description # Blank
                   /\ Includes(task.description, lowerCaseQuery)))

\* The filter effect: what it passes to setFilteredTasks.
FilterEffect(v, query) ==
    IF Trim(query) = Blank
    THEN v
    ELSE LET lowerCaseQuery == ToLowerCase(query) IN
         Arr(SelectSeq(v.items, LAMBDA task :
                \/ Includes(ToLowerCase(task.title), lowerCaseQuery)
                \/ /\ task.description # Blank
                   /\ Includes(ToLowerCase(task.description), lowerCaseQuery)))

\* useState initial values of TaskForm, taken from initialTask when the form mounts.
InitForm(initialTask) ==
    IF initialTask = NoTask
    THEN [title |-> Blank, description |-> Blank, priority |-> "medium",
          dueDate |-> <<>>, errors |-> {}]
    ELSE [title |-> initialTask[1].title,
          description |-> initialTask[1].description,
          priority |-> initialTask[1].priority,
          dueDate |-> IF initialTask[1].dueDate \in {Undefined, <<>>}
                      THEN <<>>
                      ELSE Substring10(initialTask[1].dueDate),
          errors |-> {}]

NoForm == InitForm(NoTask)

\* useState initial values of Index.
FreshComponent ==
    /\ tasks' = Arr(<<>>)
    /\ filteredTasks' = Arr(<<>>)
    /\ showForm' = FALSE
    /\ editingTask' = NoTask
    /\ testStarted' = FALSE
    /\ searchQuery' = Blank
    /\ form' = NoForm

\* ------------------------------------------------------------------ initial state

Init ==
    /\ storage \in InitialSlots
    /\ mounted = FALSE
    /\ crashed = FALSE
    /\ storageOk = TRUE
    /\ tasks = Arr(<<>>)
    /\ filteredTasks = Arr(<<>>)
    /\ showForm = FALSE
    /\ editingTask = NoTask
    /\ testStarted = FALSE
    /\ searchQuery = Blank
    /\ form = NoForm
    /\ timeRemaining = InitialTime
    /\ isTimeUp = FALSE
    /\ timerRef = NullRef
    /\ intervals = {}
    /\ ticks = 0
    /\ restarted = FALSE
    /\ nextId = MaxIdOf(storage) + 1

\* ------------------------------------------------------------------ page load, teardown

SlotKind(slot) ==
    CASE slot.kind = "absent" -> "absent"
      [] slot.kind = "text" -> "unparseable"
      [] slot.val.kind = "array" -> "list"
      [] OTHER -> "nonlist"

\* Page load: the first render and its effects (load, save of the initial [], filter),
\* then, if the load effect called setTasks, the second render and its effects.
Mount ==
    /\ ~mounted
    /\ LET loads == storage.kind = "json"
           loaded == IF loads THEN Parse(storage) ELSE Arr(<<>>)
           afterFirst == SaveEffect(storage, Arr(<<>>), storageOk)
       IN  /\ tasks' = loaded
           /\ filteredTasks' = FilterEffect(loaded, Blank)
           /\ storage' = IF loads THEN SaveEffect(afterFirst, loaded, storageOk)
                                  ELSE afterFirst
    /\ mounted' = TRUE
    /\ crashed' = FALSE
    /\ showForm' = FALSE
    /\ editingTask' = NoTask
    /\ testStarted' = FALSE
    /\ searchQuery' = Blank
    /\ form' = NoForm
    /\ timeRemaining' = InitialTime
    /\ isTimeUp' = FALSE
    /\ timerRef' = NullRef
    /\ ticks' = 0
    /\ restarted' = FALSE
    /\ UNCHANGED << intervals, nextId, storageOk >>

\* Teardown of the session: effect cleanups run and the component state is gone.
Unmount ==
    /\ mounted
    /\ mounted' = FALSE
    /\ FreshComponent
    /\ SetTimer([CleanupTimer(Timer) EXCEPT !.timeRemaining = InitialTime,
                                            !.isTimeUp = FALSE, !.timerRef = NullRef])
    /\ ticks' = 0
    /\ restarted' = FALSE
    /\ UNCHANGED << storage, crashed, storageOk, nextId >>

\* ------------------------------------------------------------------ session handlers

\* The render of the test content reads filteredTasks.length and calls
\* filteredTasks.map: with a value that is not an array it throws.
RenderThrows(started, filtered) == started /\ filtered.kind # "array"

HandleStartTest ==
    /\ mounted /\ ~testStarted
    /\ ticks' = 0
    /\ restarted' = FALSE
    /\ IF RenderThrows(TRUE, filteredTasks)
       THEN /\ mounted' = FALSE
            /\ crashed' = TRUE
            /\ FreshComponent
            /\ SetTimer([CleanupTimer(StartTimer(Timer)) EXCEPT
                            !.timeRemaining = InitialTime, !.isTimeUp = FALSE,
                            !.timerRef = NullRef])
       ELSE /\ testStarted' = TRUE
            /\ SetTimer(StartTimer(Timer))
            /\ UNCHANGED << mounted, crashed, storeVars >>
    /\ UNCHANGED envVars

HandleResetTest ==
    /\ mounted /\ testStarted
    /\ storage' = SaveEffect(storage, Arr(<<>>), storageOk)
    /\ testStarted' = FALSE
    /\ SetTimer(ResetTimer(Timer))
    /\ tasks' = Arr(<<>>)
    /\ filteredTasks' = FilterEffect(Arr(<<>>), searchQuery)
    /\ showForm' = FALSE
    /\ form' = NoForm
    /\ restarted' = FALSE
    /\ UNCHANGED << mounted, crashed, editingTask, searchQuery, nextId, storageOk, ticks >>

\* handleStartTest called again after the test was started (a second click handled
\* before the Start button is gone): setTestStarted(true), then startTimer().
RepeatedStart ==
    /\ mounted /\ testStarted
    /\ testStarted' = TRUE
    /\ SetTimer(StartTimer(Timer))
    /\ restarted' = TRUE
    /\ UNCHANGED << mounted, crashed, storeVars, envVars, ticks >>

\* One firing of a running interval.  The count of firings stops at InitialTime + 1.
Tick ==
    /\ \E i \in intervals : SetTimer(TickUpdate(Timer))
    /\ ticks' = IF ticks > InitialTime THEN ticks ELSE ticks + 1
    /\ UNCHANGED << mounted, crashed, testStarted, storeVars, envVars, restarted >>

\* ------------------------------------------------------------------ task handlers

\* uuidv4() and new Date().toISOString() at the time of a creation: a fresh id and
\* the reading of a clock that advances with every creation.
Uuid == nextId
Now == nextId

\* The task TaskForm.handleSubmit builds from the form state and initialTask.
NewTask(f, initialTask) ==
    [id |-> IF initialTask # NoTask THEN initialTask[1].id ELSE Uuid,
     title |-> f.title,
     description |-> f.description,
     priority |-> f.priority,
     completed |-> IF initialTask # NoTask THEN initialTask[1].completed ELSE FALSE,
     dueDate |-> IF f.dueDate = <<>> THEN Undefined ELSE f.dueDate,
     createdAt |-> IF initialTask # NoTask THEN initialTask[1].createdAt ELSE Now]

\* Variant of the validation that tests the title without trimming it.
ValidateUntrimmed(f) == IF f.title = Blank THEN {"title"} ELSE {}

\* The validation of handleSubmit: the fields that get an error message.
Validate(f) == IF Trim(f.title) = Blank THEN {"title"} ELSE {}

\* Variant of handleAddTask that appends: [...tasks, newTask]
AddTaskAtEnd(items, newTask) == items \o <<newTask>>

\* [newTask, ...tasks]
AddTask(items, newTask) == <<newTask>> \o items

\* Variant of handleSaveEditedTask that moves the edited task to the front.
SaveEditedTaskToFront(items, editedTask) ==
    <<editedTask>> \o SelectSeq(items, LAMBDA task : task.id # editedTask.id)

\* tasks.map(task => task.id === editedTask.id ? editedTask : task)
SaveEditedTask(items, editedTask) ==
    [k \in DOMAIN items |-> IF items[k].id = editedTask.id THEN editedTask ELSE items[k]]

\* tasks.filter(task => task.id !== taskToDelete.id)
DeleteTask(items, taskToDelete) ==
    SelectSeq(items, LAMBDA task : task.id # taskToDelete.id)

\* Variant of handleToggleComplete that marks the task completed instead of flipping it.
ToggleCompleteSetsTrue(items, taskToToggle) ==
    [k \in DOMAIN items |->
        IF items[k].id = taskToToggle.id
        THEN [items[k] EXCEPT !.completed = TRUE]
        ELSE items[k]]

\* tasks.map(task => task.id === taskToToggle.id ? {...task, completed: !task.completed} : task)
ToggleComplete(items, taskToToggle) ==
    [k \in DOMAIN items |->
        IF items[k].id = taskToToggle.id
        THEN [items[k] EXCEPT !.completed = ~@]
        ELSE items[k]]

\* Variant of setTasks that gives the mutation up when the slot cannot be written.
SetTasksRolledBack(items) ==
    /\ tasks' = IF storageOk THEN Arr(items) ELSE tasks
    /\ filteredTasks' = FilterEffect(tasks', searchQuery)
    /\ storage' = SaveEffect(storage, tasks', storageOk)
    /\ UNCHANGED storageOk

\* setTasks(items) followed by the re-render's save and filter effects.
SetTasks(items) ==
    /\ tasks' = Arr(items)
    /\ filteredTasks' = FilterEffect(Arr(items), searchQuery)
    /\ storage' = SaveEffect(storage, Arr(items), storageOk)
    /\ UNCHANGED storageOk

\* The test content (task list, search box, form) is rendered only once started.
ContentShown == mounted /\ testStarted

sessionVars == << mounted, crashed, testStarted, timerVars, ticks, restarted >>

\* The Add Task button: disabled={isTimeUp}
ClickAddTask ==
    /\ ContentShown /\ ~isTimeUp
    /\ editingTask' = NoTask
    /\ showForm' = ~showForm
    /\ form' = IF showForm THEN NoForm ELSE InitForm(NoTask)
    /\ UNCHANGED << sessionVars, envVars, tasks, filteredTasks, searchQuery >>

\* The Edit button of a rendered task card.  A form that is already open keeps
\* its own state: useState reads initialTask only when TaskForm mounts.
HandleEditTask ==
    /\ ContentShown
    /\ \E k \in DOMAIN filteredTasks.items :
        LET taskToEdit == filteredTasks.items[k] IN
        /\ editingTask' = <<taskToEdit>>
        /\ showForm' = TRUE
        /\ form' = IF showForm THEN form ELSE InitForm(<<taskToEdit>>)
    /\ UNCHANGED << sessionVars, envVars, tasks, filteredTasks, searchQuery >>

\* onChange of the four form inputs.
SetTitle ==
    /\ ContentShown /\ showForm
    /\ \E v \in TitleVals : form' = [form EXCEPT !.title = v]
    /\ UNCHANGED << sessionVars, envVars, tasks, filteredTasks, searchQuery,
                    showForm, editingTask >>

SetDescription ==
    /\ ContentShown /\ showForm
    /\ \E v \in DescVals : form' = [form EXCEPT !.description = v]
    /\ UNCHANGED << sessionVars, envVars, tasks, filteredTasks, searchQuery,
                    showForm, editingTask >>

SetPriority ==
    /\ ContentShown /\ showForm
    /\ \E v \in PriorityVals : form' = [form EXCEPT !.priority = v]
    /\ UNCHANGED << sessionVars, envVars, tasks, filteredTasks, searchQuery,
                    showForm, editingTask >>

SetDueDate ==
    /\ ContentShown /\ showForm
    /\ \E v \in DueVals : form' = [form EXCEPT !.dueDate = v]
    /\ UNCHANGED << sessionVars, envVars, tasks, filteredTasks, searchQuery,
                    showForm, editingTask >>

\* The Cancel button: onCancel = () => setShowForm(false)
CancelForm ==
    /\ ContentShown /\ showForm
    /\ showForm' = FALSE
    /\ form' = NoForm
    /\ UNCHANGED << sessionVars, envVars, tasks, filteredTasks, searchQuery, editingTask >>

\* TaskForm.handleSubmit with onSave = editingTask ? handleSaveEditedTask : handleAddTask
HandleSubmit ==
    /\ ContentShown /\ showForm
    /\ IF Validate(form) # {}
       THEN /\ form' = [form EXCEPT !.errors = Validate(form)]
            /\ UNCHANGED << envVars, tasks, filteredTasks, showForm, editingTask >>
       ELSE IF editingTask # NoTask
       THEN /\ SetTasks(SaveEditedTask(tasks.items, NewTask(form, editingTask)))
            /\ editingTask' = NoTask
            /\ showForm' = FALSE
            /\ form' = NoForm
            /\ UNCHANGED nextId
       ELSE /\ nextId <= MaxIds
            /\ SetTasks(AddTask(tasks.items, NewTask(form, NoTask)))
            /\ nextId' = nextId + 1
            /\ showForm' = FALSE
            /\ form' = NoForm
            /\ UNCHANGED editingTask
    /\ UNCHANGED << sessionVars, searchQuery >>

\* The Delete button of a rendered task card.
HandleDeleteTask ==
    /\ ContentShown
    /\ \E k \in DOMAIN filteredTasks.items :
        SetTasks(DeleteTask(tasks.items, filteredTasks.items[k]))
    /\ UNCHANGED << sessionVars, nextId, showForm, editingTask, searchQuery, form >>

\* The completion button of a rendered task card.
HandleToggleComplete ==
    /\ ContentShown
    /\ \E k \in DOMAIN filteredTasks.items :
        SetTasks(ToggleComplete(tasks.items, filteredTasks.items[k]))
    /\ UNCHANGED << sessionVars, nextId, showForm, editingTask, searchQuery, form >>

\* onChange of the search input, then the filter effect.
SetSearchQuery ==
    /\ ContentShown
    /\ \E q \in QueryVals :
        /\ searchQuery' = q
        /\ filteredTasks' = FilterEffect(tasks, q)
    /\ UNCHANGED << sessionVars, envVars, tasks, showForm, editingTask, form >>

\* The environment: from now on localStorage.setItem throws (quota exceeded,
\* storage disabled).
StorageFault ==
    /\ storageOk
    /\ storageOk' = FALSE
    /\ UNCHANGED << sessionVars, storeVars, storage, nextId >>

\* ------------------------------------------------------------------ specifications

\* The task store and its form, with the session's load, start, reset and teardown.
\* The countdown does not tick here: no task handler reads or writes the timer
\* except the Add Task button, which expiry can only disable.  The search query
\* stays empty and descriptions are those of the stored task and of the empty
\* form; SearchSpec covers the search box and the description input.
Next ==
    \/ Mount \/ Unmount \/ HandleStartTest \/ HandleResetTest
    \/ ClickAddTask \/ HandleEditTask
    \/ SetTitle \/ SetPriority \/ SetDueDate
    \/ CancelForm \/ HandleSubmit
    \/ HandleDeleteTask \/ HandleToggleComplete

Spec == Init /\ [][Next]_vars

\* The search box and the filtered view over every change of the list that the
\* filter can see (titles, descriptions, creation, deletion, reset); priority and
\* due date, which the filter does not read, keep their initial values here.
SearchNext ==
    \/ Mount \/ HandleStartTest \/ HandleResetTest
    \/ ClickAddTask \/ HandleEditTask
    \/ SetTitle \/ SetDescription
    \/ CancelForm \/ HandleSubmit
    \/ HandleDeleteTask \/ HandleToggleComplete \/ SetSearchQuery

SearchSpec == Init /\ [][SearchNext]_vars

\* The countdown over its whole range, with the session's load, start, reset and teardown.
TimerNext ==
    Mount \/ Unmount \/ HandleStartTest \/ RepeatedStart \/ HandleResetTest \/ Tick

TimerSpec == Init /\ [][TimerNext]_vars

\* The task store with a storage slot whose writes may start to fail at any moment.
\* Priority and due date keep their initial values here.
FaultNext ==
    \/ Mount \/ HandleStartTest \/ HandleResetTest
    \/ ClickAddTask \/ HandleEditTask
    \/ SetTitle
    \/ CancelForm \/ HandleSubmit
    \/ HandleDeleteTask \/ HandleToggleComplete \/ StorageFault

FaultSpec == Init /\ [][FaultNext]_vars

\* The last seconds of a countdown: a session that was loaded and started, whose
\* interval has fired InitialTime - LastSeconds times, nothing else having been
\* done yet (a state TimerSpec reaches).
ExpiryInit ==
    /\ \E slot \in {AbsentSlot, Stringify(Arr(<<StoredTask>>))} :
          LET loaded == IF slot.kind = "json" THEN Parse(slot) ELSE Arr(<<>>) IN
          /\ storage = Stringify(loaded)
          /\ tasks = loaded
          /\ filteredTasks = FilterEffect(loaded, Blank)
          /\ nextId = MaxIdOf(slot) + 1
    /\ mounted = TRUE
    /\ crashed = FALSE
    /\ storageOk = TRUE
    /\ showForm = FALSE
    /\ editingTask = NoTask
    /\ testStarted = TRUE
    /\ searchQuery = Blank
    /\ form = NoForm
    /\ timeRemaining = LastSeconds
    /\ isTimeUp = FALSE
    /\ timerRef = StartTimer([timeRemaining |-> InitialTime, isTimeUp |-> FALSE,
                              timerRef |-> NullRef, intervals |-> {}]).timerRef
    /\ intervals = {timerRef}
    /\ ticks = InitialTime - LastSeconds
    /\ restarted = FALSE

\* The task store while the countdown runs down to expiry and after it.
ExpiryNext ==
    \/ Tick
    \/ ClickAddTask \/ HandleEditTask
    \/ SetTitle \/ SetPriority
    \/ CancelForm \/ HandleSubmit
    \/ HandleDeleteTask \/ HandleToggleComplete

ExpirySpec == ExpiryInit /\ [][ExpiryNext]_vars

\* The user types a title only while the form is in create mode.
SetTitleInCreateMode == editingTask = NoTask /\ SetTitle

\* The task store with a user who changes no field of a form that is in edit
\* mode: whatever such a form holds, it got from the component, not from the user.
EditNext ==
    \/ Mount \/ HandleStartTest \/ HandleResetTest
    \/ ClickAddTask \/ HandleEditTask
    \/ SetTitleInCreateMode
    \/ CancelForm \/ HandleSubmit
    \/ HandleDeleteTask \/ HandleToggleComplete

EditSpec == Init /\ [][EditNext]_vars

\* ------------------------------------------------------------------ task store claims

\* A text that is empty or consists of spaces only.
IsBlankText(s) == \A k \in DOMAIN s : s[k] = " "

Ids(items) == { items[k].id : k \in DOMAIN items }

\* C1: a submit in create mode with a title that is not blank puts a new task
\* with that title (and a fresh id) at index 0, followed by all earlier tasks in
\* their earlier order; with an empty query the filtered view shows it first.
C1_CreatePrepends ==
    [][ (showForm /\ editingTask = NoTask /\ ~IsBlankText(form.title) /\ HandleSubmit) =>
          /\ Len(tasks'.items) = Len(tasks.items) + 1
          /\ tasks'.items[1].title = form.title
          /\ tasks'.items[1].id \notin Ids(tasks.items)
          /\ \A k \in DOMAIN tasks.items : tasks'.items[k + 1] = tasks.items[k]
          /\ IsBlankText(searchQuery) =>
                (filteredTasks'.items # <<>> /\ filteredTasks'.items[1] = tasks'.items[1])
      ]_vars

\* The newest task is at the front of a list that also holds an older task, and
\* the filtered view shows it first.
C1_Witness ==
    /\ mounted /\ testStarted /\ ~showForm
    /\ Len(tasks.items) >= 2
    /\ tasks.items[1].id = nextId - 1
    /\ tasks.items[1].createdAt = nextId - 1
    /\ filteredTasks.items[1] = tasks.items[1]

\* C2: a submit (create or update) with an empty or whitespace-only title leaves
\* the task list, the filtered view and the storage slot as they were, reports an
\* error under the key "title" and leaves the form open.
C2_BlankTitleRejected ==
    [][ (showForm /\ IsBlankText(form.title) /\ HandleSubmit) =>
          /\ tasks' = tasks
          /\ filteredTasks' = filteredTasks
          /\ storage' = storage
          /\ "title" \in form'.errors
          /\ showForm' /\ editingTask' = editingTask ]_vars

\* A whitespace-only title was submitted in edit mode: the error is shown and the
\* form is still open on the task.
C2_Witness ==
    /\ showForm /\ form.errors = {"title"} /\ form.title = <<" ">>
    /\ editingTask # NoTask /\ editingTask[1].id \in Ids(tasks.items)

\* C3: a submit in edit mode replaces the task that has the edited id at its list
\* position by the form's values, keeps that task's id and createdAt, and leaves
\* every other task as it was; when no task has that id the list is unchanged.
C3_UpdateInPlace ==
    [][ (showForm /\ editingTask # NoTask /\ ~IsBlankText(form.title) /\ HandleSubmit) =>
          LET id == editingTask[1].id IN
          /\ Len(tasks'.items) = Len(tasks.items)
          /\ \A k \in DOMAIN tasks.items :
                IF tasks.items[k].id = id
                THEN /\ tasks'.items[k].id = tasks.items[k].id
                     /\ tasks'.items[k].createdAt = tasks.items[k].createdAt
                     /\ tasks'.items[k].title = form.title
                     /\ tasks'.items[k].description = form.description
                     /\ tasks'.items[k].priority = form.priority
                     /\ tasks'.items[k].dueDate =
                            (IF form.dueDate = <<>> THEN Undefined ELSE form.dueDate)
                ELSE tasks'.items[k] = tasks.items[k]
          /\ id \notin Ids(tasks.items) => tasks' = tasks ]_vars

\* The task of the earlier session (createdAt 0) carries a title only an update
\* can have given it, behind a newer task that is as it was created.
C3_Witness ==
    /\ mounted /\ ~showForm /\ Len(tasks.items) = 2
    /\ tasks.items[2].id = StoredTask.id /\ tasks.items[2].createdAt = StoredTask.createdAt
    /\ tasks.items[2].title = <<"A", "B">>
    /\ tasks.items[1].id # StoredTask.id

\* C4: toggleComplete of a listed task flips the completed flag of that task and
\* changes nothing else (other fields, order, other tasks); applied twice it gives
\* back the list it started from.
C4_ToggleFlipsOnly ==
    [][ (tasks' # tasks /\ HandleToggleComplete) =>
          \E k \in DOMAIN tasks.items :
              /\ tasks'.items = [tasks.items EXCEPT ![k].completed = ~@]
              /\ ToggleComplete(tasks'.items, tasks'.items[k]) = tasks.items ]_vars

\* The task of the earlier session, stored as completed, is now not completed:
\* only a toggle clears the flag.
C4_Witness ==
    /\ mounted /\ Len(tasks.items) = 2
    /\ \E k \in DOMAIN tasks.items :
          /\ tasks.items[k].createdAt = StoredTask.createdAt
          /\ ~tasks.items[k].completed
          /\ tasks.items[k].title = StoredTask.title
          /\ tasks.items[k].dueDate = StoredTask.dueDate

\* Two characters that are the same letter, whatever their case.
SameLetter(a, b) ==
    \/ a = b
    \/ {a, b} = {"a", "A"}
    \/ {a, b} = {"b", "B"}

\* q occurs in text, letter case ignored.
OccursIgnoringCase(text, q) ==
    \E off \in 0..(Len(text) - Len(q)) :
        \A j \in 1..Len(q) : SameLetter(text[off + j], q[j])

\* C5: after every event the filtered view is the ordered subsequence of the task
\* list holding exactly the tasks whose title or description contains the query,
\* letter case ignored; for an empty or whitespace-only query it is the whole list.
C5_FilterIsSubsequence ==
    tasks.kind = "array" =>
        /\ filteredTasks.kind = "array"
        /\ filteredTasks.items =
              IF IsBlankText(searchQuery)
              THEN tasks.items
              ELSE SelectSeq(tasks.items, LAMBDA t :
                       \/ OccursIgnoringCase(t.title, searchQuery)
                       \/ OccursIgnoringCase(t.description, searchQuery))

\* A query in upper case selects, out of two tasks, the one whose title is in
\* upper case, and leaves out the other.
C5_Witness ==
    /\ searchQuery = <<"B">> /\ Len(tasks.items) = 2 /\ Len(filteredTasks.items) = 1
    /\ filteredTasks.items[1].title = <<"A", "B">>
    /\ filteredTasks.items[1].description = Blank
    /\ filteredTasks.items[1] = tasks.items[2]

\* C9: with working storage, after page load and after every create, update,
\* remove, toggle and session reset the slot holds the serialization of the
\* in-memory list and loading it gives that list back; teardown leaves the slot
\* alone, and a restart loads a list whose serialization is the slot's content.
C9_StorageMirrorsList ==
    [][ /\ mounted' => (storage' = Stringify(tasks') /\ Parse(storage') = tasks')
        /\ Unmount => storage' = Stringify(tasks)
        /\ (Mount /\ storage.kind = "json") =>
              (Stringify(tasks') = storage /\ storage' = storage) ]_vars

\* A session that was restarted or not, holding a task without a due date and a
\* task with one, both mirrored in the slot.
C9_Witness ==
    /\ mounted /\ storageOk /\ Len(tasks.items) = 2
    /\ tasks.items[1].dueDate = Undefined /\ tasks.items[2].dueDate # Undefined
    /\ tasks.items[1].completed
    /\ storage.val.items[1].dueDate = <<>>
    /\ storage.val.items[2].dueDate = << tasks.items[2].dueDate >>

\* The list without the element at position k.
WithoutAt(items, k) == SubSeq(items, 1, k - 1) \o SubSeq(items, k + 1, Len(items))

\* C11: while writes to the storage slot fail, a create, update, remove or toggle
\* still takes effect on the in-memory list (computed from the in-memory list, not
\* from the slot) and on the filtered view, the slot keeps its old content, the
\* page stays up with no error escaping, and the form closes as after a success.
C11_WriteFailureKeepsMutation ==
    [][ ~storageOk =>
          /\ (HandleSubmit \/ HandleDeleteTask \/ HandleToggleComplete) =>
                /\ storage' = storage
                /\ mounted' /\ ~crashed'
                /\ filteredTasks' = FilterEffect(tasks', searchQuery)
          /\ (showForm /\ ~IsBlankText(form.title) /\ HandleSubmit) =>
                /\ ~showForm'
                /\ IF editingTask = NoTask
                   THEN /\ Len(tasks'.items) = Len(tasks.items) + 1
                        /\ tasks'.items[1].title = form.title
                        /\ \A k \in DOMAIN tasks.items : tasks'.items[k + 1] = tasks.items[k]
                   ELSE /\ Len(tasks'.items) = Len(tasks.items)
                        /\ \A k \in DOMAIN tasks.items :
                              IF tasks.items[k].id = editingTask[1].id
                              THEN tasks'.items[k].title = form.title
                              ELSE tasks'.items[k] = tasks.items[k]
          /\ HandleDeleteTask =>
                \E k \in DOMAIN tasks.items : tasks'.items = WithoutAt(tasks.items, k)
          /\ HandleToggleComplete =>
                \E k \in DOMAIN tasks.items :
                    tasks'.items = [tasks.items EXCEPT ![k].completed = ~@] ]_vars

\* Writes fail and the slot still holds the empty list, while the in-memory list
\* holds a task that was created and then completed after the failure began.
C11_Witness ==
    /\ mounted /\ ~crashed /\ ~storageOk /\ ~showForm
    /\ storage = Stringify(Arr(<<>>))
    /\ Len(tasks.items) = 1 /\ filteredTasks = tasks
    /\ tasks.items[1].completed
    /\ tasks.items[1].title = <<"A", "B">>
    /\ tasks.items[1].createdAt = 1

\* ------------------------------------------------------------------ timer claims

\* C6: at most one interval is running at any time; a call of start() while the
\* countdown is running changes no timer state and schedules no second interval;
\* every firing lowers timeRemaining by exactly 1, however often start() was called.
C6_SingleTickSource ==
    [][ /\ Cardinality(intervals') <= 1
        /\ (mounted' /\ testStarted' /\ ~isTimeUp') => intervals' = {timerRef'}
        /\ RepeatedStart => UNCHANGED timerVars
        /\ Tick => timeRemaining' = timeRemaining - 1 ]_vars

\* start() was called again during a countdown that has gone on ticking from one interval.
C6_Witness ==
    restarted /\ ticks > 1 /\ intervals = {timerRef} /\ timeRemaining = InitialTime - ticks

\* C7: while the countdown runs timeRemaining never increases and stays within
\* 0..3600; expired is true exactly from the 3600th firing on; from then on
\* timeRemaining is 0, expired is true, no interval is left to fire and the timer
\* state does not change until the reset (or teardown) that ends the run.
C7_CountdownExpiry ==
    [][ /\ timeRemaining' \in 0..InitialTime
        /\ (testStarted /\ testStarted') => timeRemaining' <= timeRemaining
        /\ (mounted' /\ testStarted') =>
              /\ isTimeUp' <=> (ticks' = InitialTime)
              /\ timeRemaining' = InitialTime - ticks'
        /\ isTimeUp' => (timeRemaining' = 0 /\ intervals' = {})
        /\ (isTimeUp /\ testStarted') => UNCHANGED timerVars ]_vars

\* The countdown has expired on its 3600th firing.
C7_Witness ==
    mounted /\ testStarted /\ isTimeUp /\ ticks = InitialTime /\ timeRemaining = 0

\* C8: from every reachable timer state reset() yields timeRemaining = 3600,
\* expired = false and no running interval; timeRemaining then stays 3600 with no
\* interval until the next start(); after teardown no interval is left to fire.
C8_ResetRestores ==
    [][ /\ LET r == ResetTimer(Timer) IN
              r.timeRemaining = InitialTime /\ ~r.isTimeUp /\ r.intervals = {}
        /\ HandleResetTest =>
              (timeRemaining' = InitialTime /\ ~isTimeUp' /\ intervals' = {})
        /\ ~testStarted' =>
              (timeRemaining' = InitialTime /\ ~isTimeUp' /\ intervals' = {})
        /\ ~mounted' => intervals' = {} ]_vars

\* The session was reset after its countdown had expired.
C8_Witness ==
    /\ mounted /\ ~testStarted /\ ticks = InitialTime
    /\ timeRemaining = InitialTime /\ ~isTimeUp /\ intervals = {} /\ timerRef = NullRef

\* C12: once the countdown has expired no form submit adds a task to the list,
\* also when the creation form was opened before expiry, while edit, remove and
\* toggle of a shown task remain possible.
C12_CreateGatedOnExpiry ==
    [][ /\ (isTimeUp /\ HandleSubmit) => Len(tasks'.items) <= Len(tasks.items)
        /\ (isTimeUp /\ filteredTasks.items # <<>>) =>
              /\ ENABLED HandleEditTask
              /\ ENABLED HandleDeleteTask
              /\ ENABLED HandleToggleComplete ]_vars

\* C13: when the form is in edit mode for a task that is in the list and the user
\* has changed no field of it, a submit leaves the whole list, that task included,
\* as it was (title, description, priority, dueDate, completed).
C13_UntouchedEditKeepsTask ==
    [][ (showForm /\ editingTask # NoTask /\ editingTask[1].id \in Ids(tasks.items)
         /\ HandleSubmit) => tasks' = tasks ]_vars

\* C10: a page load that finds the slot absent, unparseable or holding JSON that is
\* not a list leaves the in-memory task list empty, and no error ever escapes.
C10_LoadFailsSoft ==
    [][ /\ (Mount /\ SlotKind(storage) # "list") => tasks' = Arr(<<>>)
        /\ ~crashed' ]_vars

====
